---------------------------- MODULE Spec2Model ----------------------------
(***************************************************************************)
(* err-rss: an Errbot plugin that polls RSS/Atom feeds for chat rooms.     *)
(*                                                                         *)
(* The model follows src/rss.py, the variant that runs: it resolves the    *)
(* credentials of a URL from the ini rules (_find_url_ini_config), reads a *)
(* feed with three tries (read_feed), and in every poll cycle              *)
(* (check_feeds, _report_feed) sends each room the entries newer than the  *)
(* room's last_check and advances that last_check.  The package            *)
(* src/err_rss is an unfinished refactoring of the same plugin: its Rss    *)
(* class calls self.read_feed, which it does not define, and builds        *)
(* FeedReader without the url argument its constructor requires, so none   *)
(* of its poll or watch paths runs.                                        *)
(*                                                                         *)
(* Four specifications share the variables:                                *)
(*   SpecFetch  the credential resolver and the fetcher, call after call   *)
(*              on one shared HTTP session;                                *)
(*   Spec       the scheduler's timers and the poll cycles they start,     *)
(*              which may overlap, over the persisted registry;            *)
(*   SpecReg    the commands watch and ignore, two at a time, beside the   *)
(*              poll cycles;                                               *)
(*   SpecSched  the scheduler under the commands interval and deactivate,  *)
(*              one access to its shared state at a time.                  *)
(***************************************************************************)
EXTENDS Integers, Sequences, FiniteSets, TLC

(***************************************************************************)
(* Bounds of the model.                                                    *)
(***************************************************************************)
\* longest rule table (number of ini sections) drawn in Init
MaxRules == 2
\* number of resolve-and-read calls of one behaviour of SpecFetch
MaxCalls == 2

\* read_feed(self, url, config, tries=3, patience=1)
Tries == 3

None == "None"

(***************************************************************************)
(* Text.  A string is a sequence of one-character strings, so that         *)
(* startswith, endswith, lstrip and split work on characters as Python's   *)
(* do.                                                                     *)
(***************************************************************************)
StartsWith(s, p) == Len(p) <= Len(s) /\ SubSeq(s, 1, Len(p)) = p

EndsWith(s, p) == Len(p) <= Len(s) /\ SubSeq(s, Len(s) - Len(p) + 1, Len(s)) = p

\* str.lstrip(c): every leading c is removed
RECURSIVE Lstrip(_, _)
Lstrip(s, c) == IF s # <<>> /\ Head(s) = c THEN Lstrip(Tail(s), c) ELSE s

\* the first position of s holding a character of cs, Len(s) + 1 when none
FirstOf(s, cs) ==
    IF \E i \in 1..Len(s) : s[i] \in cs
    THEN CHOOSE i \in 1..Len(s) : s[i] \in cs /\ \A j \in 1..(i - 1) : s[j] \notin cs
    ELSE Len(s) + 1

\* str.split(sep, 1): one part when sep is absent, else the text before the
\* first sep and the whole text after it
Split1(s, sep) ==
    LET i == FirstOf(s, {sep})
    IN  IF i > Len(s) THEN <<s>>
        ELSE <<SubSeq(s, 1, i - 1), SubSeq(s, i + 1, Len(s))>>

\* urllib.parse.urlsplit, for a URL "scheme://netloc/path?query#fragment":
\* the netloc runs from behind "//" to the first of / ? #, the path from
\* there to the first of ? #
UrlSplit(url) ==
    LET c     == FirstOf(url, {":"})
        rest  == SubSeq(url, c + 1, Len(url))
        hasnl == StartsWith(rest, <<"/", "/">>)
        body  == IF hasnl THEN SubSeq(rest, 3, Len(rest)) ELSE rest
        n     == IF hasnl THEN FirstOf(body, {"/", "?", "#"}) ELSE 1
        after == SubSeq(body, n, Len(body))
        p     == FirstOf(after, {"?", "#"})
    IN  [scheme |-> SubSeq(url, 1, c - 1),
         netloc |-> SubSeq(body, 1, n - 1),
         path   |-> SubSeq(after, 1, p - 1)]

header_matches_url(header, url) ==
    LET domain == UrlSplit(url).netloc
        parts  == Split1(Lstrip(header, "*"), "/")
        apath  == Lstrip(UrlSplit(url).path, "/")
    IN  IF Len(parts) = 2
        THEN StartsWith(apath, parts[2]) /\ EndsWith(domain, parts[1])
        ELSE EndsWith(domain, parts[1])

(***************************************************************************)
(* Credential records.  A config (an ini section turned into a dict) is a  *)
(* set of <<key, value>> pairs; the empty dict is the empty set.           *)
(***************************************************************************)
HasKey(config, k) == \E kv \in config : kv[1] = k

Get(config, k) == (CHOOSE kv \in config : kv[1] = k)[2]

\* username and password only: basic credentials on the session
CredA == {<<"username", "ua">>, <<"password", "pa">>}
\* the Django CSRF login flow
CredB == {<<"username", "ub">>, <<"password", "pb">>, <<"login_url", "lb">>,
          <<"auth_type", "django_csrf">>}
\* an auth_type the plugin does not know
CredC == {<<"username", "uc">>, <<"password", "pc">>, <<"login_url", "lc">>,
          <<"auth_type", "basic">>}
\* a second plain record
CredD == {<<"username", "ud">>, <<"password", "pd">>}

\* section headers: "x.c", "x.c/b", "*.x.c", "y.c"
HdrXC   == <<"x", ".", "c">>
HdrXCB  == <<"x", ".", "c", "/", "b">>
HdrStar == <<"*", ".", "x", ".", "c">>
HdrYC   == <<"y", ".", "c">>

Rules == {[header |-> HdrXC,   section |-> CredA],
          [header |-> HdrXCB,  section |-> CredB],
          [header |-> HdrStar, section |-> CredC],
          [header |-> HdrYC,   section |-> CredD]}

\* "h://s.x.c/b/p", "h://x.c", "h://zx.c//b", "h://y.c/p", "h://z.d/b"
UrlSub   == <<"h", ":", "/", "/", "s", ".", "x", ".", "c", "/", "b", "/", "p">>
UrlBare  == <<"h", ":", "/", "/", "x", ".", "c">>
UrlZx    == <<"h", ":", "/", "/", "z", "x", ".", "c", "/", "/", "b">>
UrlY     == <<"h", ":", "/", "/", "y", ".", "c", "/", "p">>
UrlOther == <<"h", ":", "/", "/", "z", ".", "d", "/", "b">>

Urls == {UrlSub, UrlBare, UrlZx, UrlY, UrlOther}

\* the rule tables: the sections of an ini file in the order they were
\* declared, no header twice (configparser refuses a repeated section).  The
\* DEFAULT section that ConfigParser.items() also yields matches no URL
\* here, since no netloc ends in "DEFAULT".
RECURSIVE RuleTables(_)
RuleTables(n) ==
    IF n = 0 THEN {<<>>}
    ELSE RuleTables(n - 1) \cup
         {Append(t, r) : t \in {x \in RuleTables(n - 1) : Len(x) = n - 1},
                         r \in Rules}

IniChoices ==
    {t \in RuleTables(MaxRules) :
        \A i, j \in 1..Len(t) : i # j => t[i].header # t[j].header}

\* Rss._find_url_ini_config: every rule is looked at, a match overwrites
RECURSIVE FindFrom(_, _, _)
FindFrom(rules, url, config) ==
    IF rules = <<>> THEN config
    ELSE FindFrom(Tail(rules), url,
                  IF header_matches_url(Head(rules).header, url)
                  THEN Head(rules).section
                  ELSE config)

\* a resolver that stops at the first match
RECURSIVE FindFirstMatch(_, _)
FindFirstMatch(rules, url) ==
    IF rules = <<>> THEN {}
    ELSE IF header_matches_url(Head(rules).header, url)
         THEN Head(rules).section
         ELSE FindFirstMatch(Tail(rules), url)

find_url_ini_config(rules, url) == FindFrom(rules, url, {})

(***************************************************************************)
(* The fetcher.  What the network does to one attempt is the environment's *)
(* choice: "exc" (the request raises), "status" (raise_for_status raises), *)
(* "notitle" (the parsed feed has no title: the assert fails), "ok".       *)
(***************************************************************************)
EnvOutcomes == {"exc", "status", "notitle", "ok"}

\* Rss._read_url and Rss.login: what one attempt does with the session.
\*   step   "config_error": login raised ValueError, no request was made
\*          "login": django_csrf_login ran; "get": session.get(url) ran
\*   creds  session.auth while the request ran
\*   auth   session.auth after the attempt
read_url(config, auth) ==
    IF HasKey(config, "auth_type")
    THEN IF Get(config, "auth_type") = "django_csrf"
         THEN [step |-> "login", creds |-> auth, auth |-> auth]
         ELSE [step |-> "config_error", creds |-> None, auth |-> auth]
    ELSE LET a == IF HasKey(config, "username") /\ HasKey(config, "password")
                  THEN <<Get(config, "username"), Get(config, "password")>>
                  ELSE auth
         IN  [step |-> "get", creds |-> a, auth |-> a]

\* the outcome of one attempt: "ok", or the exception that ended it
AttemptOutcome(config, auth, env) ==
    IF read_url(config, auth).step = "config_error" THEN "config" ELSE env

\* except Exception: every exception of an attempt is caught
Caught(outcome) == outcome \in {"exc", "status", "notitle", "config"}

\* Rss.read_feed: the loop "while tries_left", one attempt per round.
\* The result: feed ("feed" or None), raised (an exception left read_feed),
\* auth (session.auth afterwards), trace (one record per attempt made).
RECURSIVE ReadFeedLoop(_, _, _, _, _)
ReadFeedLoop(config, outs, tries_left, auth, trace) ==
    IF tries_left = 0
    THEN [feed |-> None, raised |-> FALSE, auth |-> auth, trace |-> trace]
    ELSE LET r   == read_url(config, auth)
             out == AttemptOutcome(config, auth, outs[Len(trace) + 1])
             tr  == Append(trace, [tries_left |-> tries_left, step |-> r.step,
                                   creds |-> r.creds, outcome |-> out])
         IN  IF out = "ok"
             THEN [feed |-> "feed", raised |-> FALSE, auth |-> r.auth, trace |-> tr]
             ELSE IF Caught(out)
             THEN ReadFeedLoop(config, outs, tries_left - 1, r.auth, tr)
             ELSE [feed |-> None, raised |-> TRUE, auth |-> r.auth, trace |-> tr]

\* a fetcher that gives up after the first failed attempt
ReadFeedOnce(config, outs, auth) == ReadFeedLoop(config, outs, 1, auth, <<>>)

\* a fetcher that lets the last attempt's exception out (retry-decorator style)
ReadFeedReraise(config, outs, auth) ==
    LET r == ReadFeedLoop(config, outs, Tries, auth, <<>>)
    IN  [r EXCEPT !.raised = (r.feed = None)]

\* a fetcher that goes on with the attempts it has left after a success
RECURSIVE ReadFeedAll(_, _, _, _, _, _)
ReadFeedAll(config, outs, tries_left, auth, trace, feed) ==
    IF tries_left = 0
    THEN [feed |-> feed, raised |-> FALSE, auth |-> auth, trace |-> trace]
    ELSE LET r   == read_url(config, auth)
             out == AttemptOutcome(config, auth, outs[Len(trace) + 1])
             tr  == Append(trace, [tries_left |-> tries_left, step |-> r.step,
                                   creds |-> r.creds, outcome |-> out])
         IN  ReadFeedAll(config, outs, tries_left - 1, r.auth, tr,
                         IF out = "ok" THEN "feed" ELSE feed)

ReadFeedKeepTrying(config, outs, auth) ==
    ReadFeedAll(config, outs, Tries, auth, <<>>, None)

read_feed(config, outs, auth) == ReadFeedLoop(config, outs, Tries, auth, <<>>)

AttemptOutcomes == [1..Tries -> EnvOutcomes]

(***************************************************************************)
(* Entries.  An entry is known by its id; Published(e) is the instant      *)
(* read_date makes of its 'published' text.  Entries 1 and 2 carry the     *)
(* same instant.                                                           *)
(***************************************************************************)
\* entries the feeds may ever publish
NumEntries == 3
\* longest entry list one fetch returns
MaxFeedLen == 2
\* timers the scheduler may create in one behaviour
MaxTimers == 2
\* longest cycle duration measured, in seconds
MaxDelta == 2

EntryIds == 1..NumEntries

Published(e) == IF e = 1 THEN 1 ELSE e - 1

published_date(e) == Published(e)

Range(s) == {s[i] : i \in 1..Len(s)}

\* what a fetch may return as feed['entries']: the entries in the order of
\* the source, none twice
RECURSIVE EntryLists(_)
EntryLists(n) ==
    IF n = 0 THEN {<<>>}
    ELSE EntryLists(n - 1) \cup
         {Append(l, e) : l \in {x \in EntryLists(n - 1) : Len(x) = n - 1},
                         e \in EntryIds}

FeedContents == {l \in EntryLists(MaxFeedLen) :
                    \A i, j \in 1..Len(l) : i # j => l[i] # l[j]}

\* list.sort(key=published_date): stable, ascending
RECURSIVE InsertSorted(_, _)
InsertSorted(s, e) ==
    IF s = <<>> THEN <<e>>
    ELSE IF published_date(e) < published_date(Head(s))
         THEN <<e>> \o s
         ELSE <<Head(s)>> \o InsertSorted(Tail(s), e)

RECURSIVE SortEntries(_)
SortEntries(s) ==
    IF s = <<>> THEN <<>>
    ELSE InsertSorted(SortEntries(SubSeq(s, 1, Len(s) - 1)), s[Len(s)])

\* a selection that also takes the entry at the watermark
PickFromInclusive(entries, check_date) ==
    SelectSeq(entries, LAMBDA e : published_date(e) >= check_date)

\* a selection that takes every entry, whatever the watermark
PickAll(entries, check_date) == entries

\* Rss._pick_recent_entries_from: is_recent is published > check_date
pick_recent_entries_from(entries, check_date) ==
    SelectSeq(entries, LAMBDA e : published_date(e) > check_date)

(***************************************************************************)
(* The registry: self['feeds'], a dict title -> Feed kept in the bot's     *)
(* persistent store.  A read of self.feeds hands out a copy of what is     *)
(* stored (the store unpickles it), and "with self.mutable('feeds')"       *)
(* reads, changes and writes back in one step.                             *)
(***************************************************************************)
FeedOrder == <<"f1", "f2">>
RoomOrder == <<"r1", "r2">>

\* dict iteration: the keys in the order they were inserted
Titles(reg) == SelectSeq(FeedOrder, LAMBDA f : f \in DOMAIN reg)

RoomsOf(feed) == SelectSeq(RoomOrder, LAMBDA r : r \in DOMAIN feed.roomfeeds)

\* class Feed: url, config and roomfeeds (room_id -> last_check)
Feed(url, config, roomfeeds) ==
    [url |-> url, config |-> config, roomfeeds |-> roomfeeds]

RegBoth ==
    [f \in {"f1", "f2"} |->
        IF f = "f1"
        THEN Feed(UrlSub, CredA, [r \in {"r1", "r2"} |-> IF r = "r1" THEN 0 ELSE 1])
        ELSE Feed(UrlOther, {}, [r \in {"r1"} |-> 1])]

RegBad ==
    [f \in {"f1", "f2"} |->
        IF f = "f1"
        THEN Feed(UrlSub, CredC, [r \in {"r2"} |-> 0])
        ELSE Feed(UrlY, CredD, [r \in {"r1", "r2"} |-> IF r = "r1" THEN 1 ELSE 0])]

RegOne == [f \in {"f2"} |-> Feed(UrlOther, {}, [r \in {"r1"} |-> 0])]

RegEmpty == [f \in {} |-> 0]

InitRegistries == {RegBoth, RegBad, RegOne, RegEmpty}

\* a setter that stamps the time of the check, later than any entry
SetLastCheckNow(reg, title, room, date) ==
    [reg EXCEPT ![title].roomfeeds[room] = date + 1]

\* a setter that keeps one last_check per feed, shared by its rooms
SetLastCheckOfFeed(reg, title, room, date) ==
    [reg EXCEPT ![title].roomfeeds = [r \in DOMAIN @ |-> date]]

\* Rss.set_roomfeed_last_check
set_roomfeed_last_check(reg, title, room, date) ==
    [reg EXCEPT ![title].roomfeeds[room] = date]

\* what the network does to the three attempts of a fetch in a poll cycle
PollOutcomes ==
    {o \in AttemptOutcomes :
        \/ o = [i \in 1..Tries |-> "ok"]
        \/ o = [i \in 1..Tries |-> IF i < Tries THEN "status" ELSE "ok"]
        \/ o = [i \in 1..Tries |-> IF i = 1 THEN "exc" ELSE
                                   IF i = 2 THEN "status" ELSE "notitle"]}

Threads == 0..MaxTimers

\* number of threads of the bot's pool that run commands at the same time
MaxCmdThreads == 2
\* number of commands of one behaviour
MaxCommands == 2

CmdThreads == 1..MaxCmdThreads

\* self.startup_date: read_date(self.config['START_DATE']), the check date
\* rss_watch gives a new subscription
StartDate == 0

\* a command thread at rest, before its first command
NoCmd ==
    [n |-> 0, pc |-> "idle", kind |-> None, room |-> None, title |-> None,
     url |-> <<>>, config |-> {}, value |-> 0, resp |-> None]

\* a membership test that never finds the room
NeverInRoom(reg, title, room) == FALSE

\* a membership test that finds every room in every feed
AlwaysInRoom(reg, title, room) == TRUE

\* Feed.isin / Rss._is_feed_in_room on one copy of the registry
is_feed_in_room(reg, title, room) ==
    IF title \notin DOMAIN reg THEN FALSE
    ELSE room \in DOMAIN reg[title].roomfeeds

\* Rss.add_feed: feeds[feed_title] = Feed(feed_title, url, config), whatever
\* was stored under the title before
add_feed(reg, title, url, config) ==
    [f \in DOMAIN reg \cup {title} |->
        IF f = title THEN Feed(url, config, [r \in {} |-> 0]) ELSE reg[f]]

\* Feed.add_room raises KeyError for a room that is already registered
AddRoomRaises(reg, title, room) ==
    title \notin DOMAIN reg \/ room \in DOMAIN reg[title].roomfeeds

\* Rss.add_room_to_feed
add_room_to_feed(reg, title, room, check_date) ==
    [reg EXCEPT ![title].roomfeeds =
        [r \in DOMAIN @ \cup {room} |-> IF r = room THEN check_date ELSE @[r]]]

\* Feed.remove_room raises KeyError for a room that is not registered
RemoveRoomRaises(reg, title, room) ==
    title \notin DOMAIN reg \/ room \notin DOMAIN reg[title].roomfeeds

\* a removal that clears the feed's whole table of rooms
RemoveAllRooms(feed, room) ==
    [feed EXCEPT !.roomfeeds = [r \in {} |-> StartDate]]

\* Feed.remove_room
remove_room(feed, room) ==
    [feed EXCEPT !.roomfeeds = [r \in DOMAIN @ \ {room} |-> @[r]]]

\* Feed.has_rooms
has_rooms(feed) == DOMAIN feed.roomfeeds # {}

\* del d[title]
DelFeed(reg, title) == [f \in DOMAIN reg \ {title} |-> reg[f]]

\* Rss.remove_feed_from_room.  "feeds" is the object the mutable block will
\* write back; "self.feeds" in lines 239-240 reads the store again, which
\* still holds what was stored before the block: the test looks at a feed
\* that still has the room, and the del would change a copy that nobody
\* writes back.  What is stored at the end of the block is "feeds".
remove_feed_from_room(reg, title, room) ==
    LET feeds_ == [reg EXCEPT ![title] = remove_room(@, room)]
        fresh  == reg
        copy   == IF ~has_rooms(fresh[title]) THEN DelFeed(fresh, title) ELSE fresh
    IN  feeds_

VARIABLES
    ini,           \* self.ini: the rule table, in declaration order
    session_auth,  \* self.session.auth
    fpc,           \* the fetch call: "idle" | "resolved"
    furl,          \* the URL of the call
    fconfig,       \* what _find_url_ini_config returned for it
    fouts,         \* what the network did to the call's attempts
    fres,          \* what read_feed returned for it
    fprev,         \* session.auth when the call's read_feed started
    fcalls,        \* calls made so far
    feeds,         \* self['feeds'] as stored
    interval,      \* self.config['INTERVAL']
    delta,         \* self.delta.seconds
    checker,       \* self.checker: a timer's number, 0 for None
    timer,         \* each threading.Timer: "new" | "armed" | "cancelled" | "fired"
    pc,            \* where each thread is in check_feeds
    snap,          \* the dict its loop over self.feeds.items() iterates
    todo,          \* the titles that loop has not finished
    entries,       \* the sorted entries of the feed it is reporting
    rooms,         \* the rooms of that feed it has not finished
    recent,        \* recent_entries of the room it is reporting
    sent,          \* per feed and room, the entries handed to self.send so far
    fetched,       \* per thread, the feeds its cycle has read
    feeds0,        \* the registry at activation
    cmd,           \* per command thread, the bot command it is running
    ncmd,          \* commands started so far
    stopped        \* deactivate has been called

fvars == <<ini, session_auth, fpc, furl, fconfig, fouts, fres, fprev, fcalls>>

pvars == <<feeds, interval, delta, checker, timer, pc, snap, todo, entries,
           rooms, recent, sent, fetched, feeds0>>

cvars == <<cmd, ncmd, stopped>>

vars == <<ini, session_auth, fpc, furl, fconfig, fouts, fres, fprev, fcalls,
          feeds, interval, delta, checker, timer, pc, snap, todo, entries,
          rooms, recent, sent, fetched, feeds0, cmd, ncmd, stopped>>

\* no command has been given yet
CmdIdle ==
    /\ cmd = [c \in CmdThreads |-> NoCmd]
    /\ ncmd = 0
    /\ stopped = FALSE

NoResult == [feed |-> None, raised |-> FALSE, auth |-> None, trace |-> <<>>]

\* the fetch call's variables at rest
FetchIdle ==
    /\ fpc = "idle"
    /\ furl = <<>>
    /\ fconfig = {}
    /\ fouts = [i \in 1..Tries |-> "ok"]
    /\ fres = NoResult
    /\ fprev = None
    /\ fcalls = 0

\* the poller's variables before activation
PollIdle ==
    /\ interval \in {0, 1}
    /\ delta = 0
    /\ checker = 0
    /\ timer = [n \in 1..MaxTimers |-> "new"]
    /\ pc = [t \in Threads |-> "idle"]
    /\ snap = [t \in Threads |-> RegEmpty]
    /\ todo = [t \in Threads |-> <<>>]
    /\ entries = [t \in Threads |-> <<>>]
    /\ rooms = [t \in Threads |-> <<>>]
    /\ recent = [t \in Threads |-> <<>>]
    /\ sent = [f \in {"f1", "f2"} |-> [r \in {"r1", "r2"} |-> <<>>]]
    /\ fetched = [t \in Threads |-> {}]
    /\ feeds0 = feeds

FetchInit ==
    /\ ini \in IniChoices
    /\ session_auth = None
    /\ FetchIdle
    /\ feeds = RegEmpty
    /\ PollIdle
    /\ interval = 0
    /\ CmdIdle

\* Rss._watch_feed, line 488: config = self._find_url_ini_config(url)
Resolve(url) ==
    /\ fpc = "idle"
    /\ fcalls < MaxCalls
    /\ furl' = url
    /\ fconfig' = find_url_ini_config(ini, url)
    /\ fpc' = "resolved"
    /\ fcalls' = fcalls + 1
    /\ UNCHANGED <<ini, session_auth, fouts, fres, fprev>>
    /\ UNCHANGED pvars
    /\ UNCHANGED cvars

\* Rss._watch_feed, line 491: feed = self.read_feed(url=url, config=config)
Read(outs) ==
    /\ fpc = "resolved"
    /\ fouts' = outs
    /\ fres' = read_feed(fconfig, outs, session_auth)
    /\ fprev' = session_auth
    /\ session_auth' = fres'.auth
    /\ fpc' = "idle"
    /\ UNCHANGED <<ini, furl, fconfig, fcalls>>
    /\ UNCHANGED pvars
    /\ UNCHANGED cvars

FetchNext ==
    \/ \E url \in Urls : Resolve(url)
    \/ \E outs \in AttemptOutcomes : Read(outs)

SpecFetch == FetchInit /\ [][FetchNext]_vars

(***************************************************************************)
(* The poller.  Thread 0 is the thread that runs activate; thread n > 0 is *)
(* the thread of timer n, which runs try_method(self.check_feeds) when the *)
(* timer fires.  A timer may fire at any moment after it was armed: how    *)
(* long a cycle takes against the interval is the network's doing.         *)
(***************************************************************************)
Init ==
    /\ ini = <<>>
    /\ session_auth = None
    /\ FetchIdle
    /\ feeds \in InitRegistries
    /\ PollIdle
    /\ CmdIdle

\* Rss.stop_checking_feeds: cancel() stops a timer that has not fired
StopChecking(tm, ck) ==
    IF ck # 0 /\ tm[ck] = "armed" THEN [tm EXCEPT ![ck] = "cancelled"] ELSE tm

FreeTimer(tm) == CHOOSE n \in DOMAIN tm : tm[n] = "new" /\ \A m \in 1..(n - 1) : tm[m] # "new"

\* Rss.check_feeds, lines 340-353: the adaptive rule (through the interval
\* setter), then schedule_next_check.  The timer the setter arms is
\* cancelled by schedule_next_check in the same step and gets no number.
CheckFeedsBegin(t, tm) ==
    LET adapt == delta >= interval
        iv    == IF adapt THEN (IF delta > 0 THEN delta ELSE 0) ELSE interval
        tm1   == StopChecking(tm, checker)
    IN  /\ iv # 0 => \E n \in DOMAIN tm : tm[n] = "new"
        /\ interval' = iv
        /\ IF iv # 0
           THEN /\ timer' = [tm1 EXCEPT ![FreeTimer(tm1)] = "armed"]
                /\ checker' = FreeTimer(tm1)
           ELSE /\ timer' = tm1
                /\ checker' = checker
        /\ pc' = [pc EXCEPT ![t] = "snapshot"]

\* Rss.activate: self.checker = None, self.delta = 0, then check_feeds()
Activate ==
    /\ pc[0] = "idle"
    /\ LET adapt == 0 >= interval
           iv    == IF adapt THEN 0 ELSE interval
       IN  /\ interval' = iv
           /\ IF iv # 0
              THEN /\ timer' = [timer EXCEPT ![FreeTimer(timer)] = "armed"]
                   /\ checker' = FreeTimer(timer)
              ELSE /\ timer' = timer
                   /\ checker' = 0
    /\ delta' = 0
    /\ pc' = [pc EXCEPT ![0] = "snapshot"]
    /\ UNCHANGED <<feeds, snap, todo, entries, rooms, recent, sent,
                   fetched, feeds0>>
    /\ UNCHANGED fvars
    /\ UNCHANGED cvars

\* the timer's thread starts: job = lambda: try_method(self.check_feeds)
TimerFire(t) ==
    /\ t # 0
    /\ timer[t] = "armed"
    /\ pc[t] = "idle"
    /\ CheckFeedsBegin(t, [timer EXCEPT ![t] = "fired"])
    /\ UNCHANGED <<feeds, delta, snap, todo, entries, rooms, recent, sent,
                   fetched, feeds0>>
    /\ UNCHANGED fvars
    /\ UNCHANGED cvars

\* a cycle that works on the feed set of the moment the plugin was activated
SnapshotAtStart(t) ==
    /\ pc[t] = "snapshot"
    /\ snap' = [snap EXCEPT ![t] = feeds0]
    /\ todo' = [todo EXCEPT ![t] = Titles(feeds0)]
    /\ pc' = [pc EXCEPT ![t] = IF Len(Titles(feeds0)) = 0 THEN "done" ELSE "fetch"]
    /\ UNCHANGED <<feeds, interval, delta, checker, timer, entries, rooms,
                   recent, sent, fetched, feeds0>>
    /\ UNCHANGED fvars
    /\ UNCHANGED cvars

\* Rss.check_feeds, lines 355-366: num_feeds = len(self.feeds), the early
\* return without a feed, and the dict the for loop iterates
Snapshot(t) ==
    /\ pc[t] = "snapshot"
    /\ snap' = [snap EXCEPT ![t] = feeds]
    /\ todo' = [todo EXCEPT ![t] = Titles(feeds)]
    /\ pc' = [pc EXCEPT ![t] = IF Len(Titles(feeds)) = 0 THEN "done" ELSE "fetch"]
    /\ UNCHANGED <<feeds, interval, delta, checker, timer, entries, rooms,
                   recent, sent, fetched, feeds0>>
    /\ UNCHANGED fvars
    /\ UNCHANGED cvars

\* where a thread goes when it is done with the feed at the head of todo
AfterFeed(t) == IF Len(todo[t]) > 1 THEN "fetch" ELSE "end"

\* where a thread goes when it is done with the room at the head of rooms
AfterRoom(t) == IF Len(rooms[t]) > 1 THEN "room" ELSE AfterFeed(t)

\* a cycle that stops at a feed it cannot read
AbortOnFailure(t) == "end"

\* Rss._report_feed, lines 381-387: "return" ends the report of this feed
\* only; check_feeds goes on with the next title
AfterFailedFeed(t) == AfterFeed(t)

\* Rss._report_feed, lines 379-397: read the feed, return when there is
\* none or it has no entries, else touch up and sort the entries
FetchFeed(t, outs, content) ==
    /\ pc[t] = "fetch"
    /\ LET f    == Head(todo[t])
           feed == snap[t][f]
           res  == read_feed(feed.config, outs, session_auth)
           ok   == res.feed # None /\ content # <<>>
           none == ~ok \/ RoomsOf(feed) = <<>>
       IN  /\ session_auth' = res.auth
           /\ fetched' = [fetched EXCEPT ![t] = @ \cup {f}]
           /\ entries' = [entries EXCEPT ![t] = IF ok THEN SortEntries(content) ELSE <<>>]
           /\ rooms' = [rooms EXCEPT ![t] = IF none THEN <<>> ELSE RoomsOf(feed)]
           /\ todo' = [todo EXCEPT ![t] = IF none THEN Tail(@) ELSE @]
           /\ pc' = [pc EXCEPT ![t] = IF ~ok THEN AfterFailedFeed(t)
                                      ELSE IF none THEN AfterFeed(t)
                                      ELSE "room"]
    /\ UNCHANGED <<feeds, interval, delta, checker, timer, snap, recent, sent,
                   feeds0>>
    /\ UNCHANGED <<ini, fpc, furl, fconfig, fouts, fres, fprev, fcalls>>
    /\ UNCHANGED cvars

\* a cycle that picks a room's recent entries and leaves the sending for later
SelectWithoutSending(t) ==
    /\ pc[t] = "room"
    /\ LET f   == Head(todo[t])
           r   == Head(rooms[t])
           sel == pick_recent_entries_from(entries[t], snap[t][f].roomfeeds[r])
       IN  /\ recent' = [recent EXCEPT ![t] = sel]
           /\ IF sel # <<>>
              THEN /\ pc' = [pc EXCEPT ![t] = "advance"]
                   /\ UNCHANGED <<rooms, todo>>
              ELSE /\ pc' = [pc EXCEPT ![t] = AfterRoom(t)]
                   /\ rooms' = [rooms EXCEPT ![t] = Tail(@)]
                   /\ todo' = [todo EXCEPT ![t] = IF Len(rooms[t]) > 1 THEN @ ELSE Tail(@)]
    /\ UNCHANGED <<feeds, interval, delta, checker, timer, snap, entries,
                   sent, fetched, feeds0>>
    /\ UNCHANGED fvars
    /\ UNCHANGED cvars

\* Rss._report_feed, lines 400-407, and Rss._send_entries_to_room: pick the
\* room's recent entries and send one message for each
SendEntries(t) ==
    /\ pc[t] = "room"
    /\ LET f   == Head(todo[t])
           r   == Head(rooms[t])
           sel == pick_recent_entries_from(entries[t], snap[t][f].roomfeeds[r])
       IN  /\ recent' = [recent EXCEPT ![t] = sel]
           /\ sent' = [sent EXCEPT ![f][r] = @ \o sel]
           /\ IF sel # <<>>
              THEN /\ pc' = [pc EXCEPT ![t] = "advance"]
                   /\ UNCHANGED <<rooms, todo>>
              ELSE /\ pc' = [pc EXCEPT ![t] = AfterRoom(t)]
                   /\ rooms' = [rooms EXCEPT ![t] = Tail(@)]
                   /\ todo' = [todo EXCEPT ![t] = IF Len(rooms[t]) > 1 THEN @ ELSE Tail(@)]
    /\ UNCHANGED <<feeds, interval, delta, checker, timer, snap, entries,
                   fetched, feeds0>>
    /\ UNCHANGED fvars
    /\ UNCHANGED cvars

\* a cycle that advances the watermark in the registry copy it iterates and
\* stores that copy
AdvanceFromSnapshot(t) ==
    /\ pc[t] = "advance"
    /\ LET f == Head(todo[t])
           r == Head(rooms[t])
           newest == recent[t][Len(recent[t])]
       IN  /\ feeds' = set_roomfeed_last_check(snap[t], f, r, published_date(newest))
           /\ pc' = [pc EXCEPT ![t] = AfterRoom(t)]
           /\ rooms' = [rooms EXCEPT ![t] = Tail(@)]
           /\ todo' = [todo EXCEPT ![t] = IF Len(rooms[t]) > 1 THEN @ ELSE Tail(@)]
    /\ recent' = [recent EXCEPT ![t] = <<>>]
    /\ UNCHANGED <<interval, delta, checker, timer, snap, entries, sent,
                   fetched, feeds0>>
    /\ UNCHANGED fvars
    /\ UNCHANGED cvars

\* Rss._report_feed, lines 409-413: newest = recent_entries[-1], then
\* set_roomfeed_last_check(feed_title, room_id, newest['published']).  The
\* KeyError of a subscription that a command removed meanwhile ends the
\* cycle (try_method logs it).
AdvanceWatermark(t) ==
    /\ pc[t] = "advance"
    /\ LET f == Head(todo[t])
           r == Head(rooms[t])
           newest == recent[t][Len(recent[t])]
       IN  IF f \in DOMAIN feeds /\ r \in DOMAIN feeds[f].roomfeeds
           THEN /\ feeds' = set_roomfeed_last_check(feeds, f, r, published_date(newest))
                /\ pc' = [pc EXCEPT ![t] = AfterRoom(t)]
                /\ rooms' = [rooms EXCEPT ![t] = Tail(@)]
                /\ todo' = [todo EXCEPT ![t] = IF Len(rooms[t]) > 1 THEN @ ELSE Tail(@)]
           ELSE \* KeyError: the subscription is no longer in the store
                /\ pc' = [pc EXCEPT ![t] = "failed"]
                /\ UNCHANGED <<feeds, rooms, todo>>
    /\ recent' = [recent EXCEPT ![t] = <<>>]
    /\ UNCHANGED <<interval, delta, checker, timer, snap, entries, sent,
                   fetched, feeds0>>
    /\ UNCHANGED fvars
    /\ UNCHANGED cvars

\* Rss.check_feeds, lines 369-371: self.delta = end_time - start_time
CycleEnd(t, d) ==
    /\ pc[t] = "end"
    /\ delta' = d
    /\ pc' = [pc EXCEPT ![t] = "done"]
    /\ entries' = [entries EXCEPT ![t] = <<>>]
    /\ UNCHANGED <<feeds, interval, checker, timer, snap, todo, rooms, recent,
                   sent, fetched, feeds0>>
    /\ UNCHANGED fvars
    /\ UNCHANGED cvars

Next ==
    \/ Activate
    \/ \E t \in Threads : TimerFire(t)
    \/ \E t \in Threads : Snapshot(t)
    \/ \E t \in Threads, outs \in PollOutcomes, content \in FeedContents :
          FetchFeed(t, outs, content)
    \/ \E t \in Threads : SendEntries(t)
    \/ \E t \in Threads : AdvanceWatermark(t)
    \/ \E t \in Threads, d \in 0..MaxDelta : CycleEnd(t, d)

Spec == Init /\ [][Next]_vars

(***************************************************************************)
(* The commands watch and ignore.  The bot runs every command on a thread  *)
(* of its pool, so two commands, and a command and a poll cycle, take      *)
(* their steps in any order.  A step is one access to the store: a read    *)
(* of self.feeds or one "with self.mutable('feeds')" block.                *)
(***************************************************************************)
\* the plugin's commands exist from super().activate() to deactivate
CanStart(c) ==
    /\ cmd[c].pc = "idle"
    /\ ncmd < MaxCommands
    /\ ~stopped
    /\ pc[0] # "idle"

\* how a command ends: its response, the thread free again
Respond(c, resp) == [cmd EXCEPT ![c].pc = "idle", ![c].resp = resp]

\* a watch that does not look at what read_feed returned
WatchFeedUnchecked(c, room, url, outs, title, has_entries) ==
    /\ CanStart(c)
    /\ LET config == find_url_ini_config(ini, url)
           res    == read_feed(config, outs, session_auth)
           resp   == IF ~has_entries THEN "IndexError" ELSE None
       IN  /\ session_auth' = res.auth
           /\ cmd' = [cmd EXCEPT ![c] =
                 [n |-> ncmd + 1,
                  pc |-> IF resp = None THEN "check" ELSE "idle",
                  kind |-> "watch", room |-> room,
                  title |-> IF res.feed = None THEN None ELSE title,
                  url |-> url, config |-> config, value |-> 0, resp |-> resp]]
    /\ ncmd' = ncmd + 1
    /\ UNCHANGED <<ini, fpc, furl, fconfig, fouts, fres, fprev, fcalls>>
    /\ UNCHANGED pvars
    /\ UNCHANGED stopped

\* Rss.rss_watch / Rss._watch_feed, lines 488-501: resolve the config, read
\* the feed, "Couldn't find a feed" when there is none; sorted(...)[0]
\* raises IndexError for a feed without entries
WatchFeed(c, room, url, outs, title, has_entries) ==
    /\ CanStart(c)
    /\ LET config == find_url_ini_config(ini, url)
           res    == read_feed(config, outs, session_auth)
           resp   == IF res.feed = None THEN "nofeed"
                     ELSE IF ~has_entries THEN "IndexError" ELSE None
       IN  /\ session_auth' = res.auth
           /\ cmd' = [cmd EXCEPT ![c] =
                 [n |-> ncmd + 1,
                  pc |-> IF resp = None THEN "check" ELSE "idle",
                  kind |-> "watch", room |-> room,
                  title |-> IF res.feed = None THEN None ELSE title,
                  url |-> url, config |-> config, value |-> 0, resp |-> resp]]
    /\ ncmd' = ncmd + 1
    /\ UNCHANGED <<ini, fpc, furl, fconfig, fouts, fres, fprev, fcalls>>
    /\ UNCHANGED pvars
    /\ UNCHANGED stopped

\* Rss._register_roomfeed, lines 471-472
WatchCheck(c) ==
    /\ cmd[c].pc = "check"
    /\ cmd' = IF is_feed_in_room(feeds, cmd[c].title, cmd[c].room)
              THEN Respond(c, "already")
              ELSE [cmd EXCEPT ![c].pc = "has"]
    /\ UNCHANGED <<ncmd, stopped>>
    /\ UNCHANGED pvars
    /\ UNCHANGED fvars

\* Rss._register_roomfeed, line 475: if feed_title not in self.feeds
WatchHas(c) ==
    /\ cmd[c].pc = "has"
    /\ cmd' = [cmd EXCEPT ![c].pc =
                 IF cmd[c].title \notin DOMAIN feeds THEN "addfeed" ELSE "addroom"]
    /\ UNCHANGED <<ncmd, stopped>>
    /\ UNCHANGED pvars
    /\ UNCHANGED fvars

\* Rss._register_roomfeed, line 476: self.add_feed(feed_title, url, config)
WatchAddFeed(c) ==
    /\ cmd[c].pc = "addfeed"
    /\ feeds' = add_feed(feeds, cmd[c].title, cmd[c].url, cmd[c].config)
    /\ cmd' = [cmd EXCEPT ![c].pc = "addroom"]
    /\ UNCHANGED <<ncmd, stopped>>
    /\ UNCHANGED <<interval, delta, checker, timer, pc, snap, todo, entries,
                   rooms, recent, sent, fetched, feeds0>>
    /\ UNCHANGED fvars

\* Rss._register_roomfeed, lines 479-483: add the room to the feed and
\* answer "watching"; the KeyError of Feed.add_room leaves the command
AddRoom(c) ==
    /\ cmd[c].pc = "addroom"
    /\ IF AddRoomRaises(feeds, cmd[c].title, cmd[c].room)
       THEN /\ feeds' = feeds
            /\ cmd' = Respond(c, "KeyError")
       ELSE /\ feeds' = add_room_to_feed(feeds, cmd[c].title, cmd[c].room, StartDate)
            /\ cmd' = Respond(c, "watching")
    /\ UNCHANGED <<ncmd, stopped>>
    /\ UNCHANGED <<interval, delta, checker, timer, pc, snap, todo, entries,
                   rooms, recent, sent, fetched, feeds0>>
    /\ UNCHANGED fvars

\* Rss.rss_ignore, lines 539-540 and 548-549
IgnoreCheck(c, room, title) ==
    /\ CanStart(c)
    /\ cmd' = [cmd EXCEPT ![c] =
          [n |-> ncmd + 1,
           pc |-> IF is_feed_in_room(feeds, title, room) THEN "remove" ELSE "idle",
           kind |-> "ignore", room |-> room, title |-> title,
           url |-> IF title \in DOMAIN feeds THEN feeds[title].url ELSE <<>>,
           config |-> {}, value |-> 0,
           resp |-> IF is_feed_in_room(feeds, title, room) THEN None ELSE "unknown"]]
    /\ ncmd' = ncmd + 1
    /\ UNCHANGED stopped
    /\ UNCHANGED pvars
    /\ UNCHANGED fvars

\* Rss.rss_ignore, lines 541-547: remove_feed_from_room; the bare except
\* logs the error and the command returns None
IgnoreRemove(c) ==
    /\ cmd[c].pc = "remove"
    /\ IF RemoveRoomRaises(feeds, cmd[c].title, cmd[c].room)
       THEN /\ feeds' = feeds
            /\ cmd' = Respond(c, "silent")
       ELSE /\ feeds' = remove_feed_from_room(feeds, cmd[c].title, cmd[c].room)
            /\ cmd' = Respond(c, "ignoring")
    /\ UNCHANGED <<ncmd, stopped>>
    /\ UNCHANGED <<interval, delta, checker, timer, pc, snap, todo, entries,
                   rooms, recent, sent, fetched, feeds0>>
    /\ UNCHANGED fvars

\* what the network does to the fetch of a watch command
WatchOutcomes ==
    {o \in AttemptOutcomes :
        \/ o = [i \in 1..Tries |-> "ok"]
        \/ o = [i \in 1..Tries |-> "status"]}

\* the feed a poll cycle finds at every URL while commands run
CmdContents == {<<2>>}

CmdUrls == {UrlSub, UrlOther}

\* the cycles that run while commands are given: the one of activate and,
\* when that one is over, the one of the first timer (cycles that overlap
\* are the subject of Spec)
CycleThreads == {0, 1}

RegInit ==
    /\ ini = <<>>
    /\ session_auth = None
    /\ FetchIdle
    /\ feeds \in {RegEmpty, RegOne}
    /\ PollIdle
    /\ interval = 1
    /\ CmdIdle

RegNext ==
    \/ Activate
    \/ pc[0] \in {"done", "failed"} /\ TimerFire(1)
    \/ \E t \in CycleThreads : Snapshot(t)
    \/ \E t \in CycleThreads, content \in CmdContents :
          FetchFeed(t, [i \in 1..Tries |-> "ok"], content)
    \/ \E t \in CycleThreads : SendEntries(t)
    \/ \E t \in CycleThreads : AdvanceWatermark(t)
    \/ \E t \in CycleThreads : CycleEnd(t, 0)
    \/ \E c \in CmdThreads, room \in {"r1", "r2"}, url \in CmdUrls,
          outs \in WatchOutcomes, title \in {"f1", "f2"}, has_entries \in BOOLEAN :
          WatchFeed(c, room, url, outs, title, has_entries)
    \/ \E c \in CmdThreads : WatchCheck(c)
    \/ \E c \in CmdThreads : WatchHas(c)
    \/ \E c \in CmdThreads : WatchAddFeed(c)
    \/ \E c \in CmdThreads : AddRoom(c)
    \/ \E c \in CmdThreads, room \in {"r1", "r2"}, title \in {"f1", "f2"} :
          IgnoreCheck(c, room, title)
    \/ \E c \in CmdThreads : IgnoreRemove(c)

SpecReg == RegInit /\ [][RegNext]_vars

(***************************************************************************)
(* The scheduler under the commands interval and deactivate.  A command    *)
(* thread and the thread of a timer that has fired both go through         *)
(* stop_checking_feeds and schedule_next_check, unlocked, so here the      *)
(* first lines of check_feeds are taken one access to self.config,         *)
(* self.delta, self.checker or a timer at a time.  (In Spec no other       *)
(* thread is in these lines while a cycle is: a timer fires only after the *)
(* cycle that armed it has left them.)  The one registered feed cannot be  *)
(* read, so that a cycle is short and still records its duration.          *)
(***************************************************************************)
\* number of timers of one behaviour
SchedTimers == 3

SchedThreads == 0..SchedTimers

\* the interval commands are given one after the other (two commands at a
\* time are the subject of SpecReg)
SchedCmdThreads == {1}

\* the intervals the command is given
SchedValues == {0, 2}

\* a schedule_next_check that creates the timer and does not start it
TimerNotStarted(tm) == tm

\* threading.Timer(self.interval, job) and start(): the new timer is the
\* pending check
ArmTimer(tm) == [tm EXCEPT ![FreeTimer(tm)] = "armed"]

\* a timer fires: its thread starts try_method(self.check_feeds); from now
\* on cancel() has no effect on it
TimerStart(t) ==
    /\ t \in DOMAIN timer
    /\ timer[t] = "armed"
    /\ pc[t] = "idle"
    /\ timer' = [timer EXCEPT ![t] = "fired"]
    /\ pc' = [pc EXCEPT ![t] = "begin"]
    /\ UNCHANGED <<feeds, interval, delta, checker, snap, todo, entries, rooms,
                   recent, sent, fetched, feeds0>>
    /\ UNCHANGED fvars
    /\ UNCHANGED cvars

\* Rss.check_feeds, line 347: if self.delta.seconds >= self.interval
AdaptCompare(t) ==
    /\ pc[t] = "begin"
    /\ pc' = [pc EXCEPT ![t] = IF delta >= interval THEN "adapt_set" ELSE "stop"]
    /\ UNCHANGED <<feeds, interval, delta, checker, timer, snap, todo, entries,
                   rooms, recent, sent, fetched, feeds0>>
    /\ UNCHANGED fvars
    /\ UNCHANGED cvars

\* Rss.check_feeds, line 351: self.interval = self.delta.seconds, the
\* setter's write of self.config['INTERVAL'] (lines 275-280)
AdaptSet(t) ==
    /\ pc[t] = "adapt_set"
    /\ interval' = IF delta > 0 THEN delta ELSE 0
    /\ pc' = [pc EXCEPT ![t] = IF delta > 0 THEN "set_stop" ELSE "set_stop0"]
    /\ UNCHANGED <<feeds, delta, checker, timer, snap, todo, entries, rooms,
                   recent, sent, fetched, feeds0>>
    /\ UNCHANGED fvars
    /\ UNCHANGED cvars

\* Rss.stop_checking_feeds in a cycle's thread: called by the setter
\* (line 278 through schedule_next_check, or line 282) and by
\* schedule_next_check of line 353
CycleStop(t) ==
    /\ pc[t] \in {"set_stop", "set_stop0", "stop"}
    /\ timer' = StopChecking(timer, checker)
    /\ pc' = [pc EXCEPT ![t] = IF pc[t] = "set_stop" THEN "set_arm"
                               ELSE IF pc[t] = "set_stop0" THEN "stop"
                               ELSE "arm"]
    /\ UNCHANGED <<feeds, interval, delta, checker, snap, todo, entries, rooms,
                   recent, sent, fetched, feeds0>>
    /\ UNCHANGED fvars
    /\ UNCHANGED cvars

\* Rss.schedule_next_check, lines 192-198, in a cycle's thread
CycleArm(t) ==
    /\ pc[t] \in {"set_arm", "arm"}
    /\ IF interval # 0
       THEN /\ \E n \in DOMAIN timer : timer[n] = "new"
            /\ timer' = ArmTimer(timer)
            /\ checker' = FreeTimer(timer)
       ELSE UNCHANGED <<timer, checker>>
    /\ pc' = [pc EXCEPT ![t] = IF pc[t] = "set_arm" THEN "stop" ELSE "snapshot"]
    /\ UNCHANGED <<feeds, interval, delta, snap, todo, entries, rooms, recent,
                   sent, fetched, feeds0>>
    /\ UNCHANGED fvars
    /\ UNCHANGED cvars

\* Rss.rss_interval, lines 557-567, and the setter's write (lines 275-280)
IntervalSet(c, value) ==
    /\ CanStart(c)
    /\ interval' = IF value = interval THEN interval
                   ELSE IF value > 0 THEN value ELSE 0
    /\ cmd' = [cmd EXCEPT ![c] =
          [n |-> ncmd + 1,
           pc |-> IF value = interval THEN "idle"
                  ELSE IF value > 0 THEN "iv_stop" ELSE "iv_stop0",
           kind |-> "interval", room |-> None, title |-> None, url |-> <<>>,
           config |-> {}, value |-> value,
           resp |-> IF value = interval THEN "got it" ELSE None]]
    /\ ncmd' = ncmd + 1
    /\ UNCHANGED <<feeds, delta, checker, timer, pc, snap, todo, entries, rooms,
                   recent, sent, fetched, feeds0>>
    /\ UNCHANGED fvars
    /\ UNCHANGED stopped

\* Rss.stop_checking_feeds in the command's thread (line 282, or line 278
\* through schedule_next_check)
IntervalStop(c) ==
    /\ cmd[c].pc \in {"iv_stop", "iv_stop0"}
    /\ timer' = StopChecking(timer, checker)
    /\ cmd' = IF cmd[c].pc = "iv_stop" THEN [cmd EXCEPT ![c].pc = "iv_arm"]
              ELSE Respond(c, "changed")
    /\ UNCHANGED <<feeds, interval, delta, checker, pc, snap, todo, entries,
                   rooms, recent, sent, fetched, feeds0>>
    /\ UNCHANGED fvars
    /\ UNCHANGED <<ncmd, stopped>>

\* Rss.schedule_next_check, lines 192-198, in the command's thread
IntervalArm(c) ==
    /\ cmd[c].pc = "iv_arm"
    /\ IF interval # 0
       THEN /\ \E n \in DOMAIN timer : timer[n] = "new"
            /\ timer' = ArmTimer(timer)
            /\ checker' = FreeTimer(timer)
       ELSE UNCHANGED <<timer, checker>>
    /\ cmd' = Respond(c, "changed")
    /\ UNCHANGED <<feeds, interval, delta, pc, snap, todo, entries, rooms,
                   recent, sent, fetched, feeds0>>
    /\ UNCHANGED fvars
    /\ UNCHANGED <<ncmd, stopped>>

\* Rss.deactivate: stop_checking_feeds; the bot takes the plugin's commands
\* away
Deactivate ==
    /\ ~stopped
    /\ pc[0] \in {"done", "failed"}
    /\ stopped' = TRUE
    /\ timer' = StopChecking(timer, checker)
    /\ UNCHANGED <<feeds, interval, delta, checker, pc, snap, todo, entries,
                   rooms, recent, sent, fetched, feeds0>>
    /\ UNCHANGED fvars
    /\ UNCHANGED <<cmd, ncmd>>

\* Rss._report_feed, lines 391-394: read_date raises for an entry whose
\* 'published' is missing or is no date; the exception ends check_feeds and
\* try_method logs it (lines 96-101)
ReportRaises(t) ==
    /\ pc[t] = "fetch"
    /\ fetched' = [fetched EXCEPT ![t] = @ \cup {Head(todo[t])}]
    /\ pc' = [pc EXCEPT ![t] = "failed"]
    /\ UNCHANGED <<feeds, interval, delta, checker, timer, snap, todo, entries,
                   rooms, recent, sent, feeds0>>
    /\ UNCHANGED fvars
    /\ UNCHANGED cvars

SchedInit ==
    /\ ini = <<>>
    /\ session_auth = None
    /\ FetchIdle
    /\ feeds = RegOne
    /\ interval \in {0, 1}
    /\ delta = 0
    /\ checker = 0
    /\ timer = [n \in 1..SchedTimers |-> "new"]
    /\ pc = [t \in SchedThreads |-> "idle"]
    /\ snap = [t \in SchedThreads |-> RegEmpty]
    /\ todo = [t \in SchedThreads |-> <<>>]
    /\ entries = [t \in SchedThreads |-> <<>>]
    /\ rooms = [t \in SchedThreads |-> <<>>]
    /\ recent = [t \in SchedThreads |-> <<>>]
    /\ sent = [f \in {"f1", "f2"} |-> [r \in {"r1", "r2"} |-> <<>>]]
    /\ fetched = [t \in SchedThreads |-> {}]
    /\ feeds0 = feeds
    /\ CmdIdle

SchedNext ==
    \/ Activate
    \/ \E t \in SchedThreads : TimerStart(t)
    \/ \E t \in SchedThreads : AdaptCompare(t)
    \/ \E t \in SchedThreads : AdaptSet(t)
    \/ \E t \in SchedThreads : CycleStop(t)
    \/ \E t \in SchedThreads : CycleArm(t)
    \/ \E t \in SchedThreads : Snapshot(t)
    \/ \E t \in SchedThreads : FetchFeed(t, [i \in 1..Tries |-> "status"], <<>>)
    \/ \E t \in SchedThreads : ReportRaises(t)
    \/ \E t \in SchedThreads, d \in 0..MaxDelta : CycleEnd(t, d)
    \/ \E c \in SchedCmdThreads, value \in SchedValues : IntervalSet(c, value)
    \/ \E c \in SchedCmdThreads : IntervalStop(c)
    \/ \E c \in SchedCmdThreads : IntervalArm(c)
    \/ Deactivate

SpecSched == SchedInit /\ [][SchedNext]_vars

\* the steps of the thread of timer t (of activate for t = 0): a timer that
\* was started and not cancelled fires, and a thread that can go on does
ThreadStep(t) ==
    \/ TimerStart(t)
    \/ AdaptCompare(t)
    \/ AdaptSet(t)
    \/ CycleStop(t)
    \/ CycleArm(t)
    \/ Snapshot(t)
    \/ FetchFeed(t, [i \in 1..Tries |-> "status"], <<>>)
    \/ ReportRaises(t)
    \/ \E d \in 0..MaxDelta : CycleEnd(t, d)

\* the activated plugin left to itself: timers, cycles and deactivation
\* (the interval command and its races with a cycle are in SchedNext)
LiveNext ==
    \/ Activate
    \/ \E t \in SchedThreads : TimerStart(t)
    \/ \E t \in SchedThreads : AdaptCompare(t)
    \/ \E t \in SchedThreads : AdaptSet(t)
    \/ \E t \in SchedThreads : CycleStop(t)
    \/ \E t \in SchedThreads : CycleArm(t)
    \/ \E t \in SchedThreads : Snapshot(t)
    \/ \E t \in SchedThreads : FetchFeed(t, [i \in 1..Tries |-> "status"], <<>>)
    \/ \E t \in SchedThreads : ReportRaises(t)
    \/ \E t \in SchedThreads, d \in 0..MaxDelta : CycleEnd(t, d)
    \/ Deactivate

\* the scheduler with threads that go on; nothing forces the bot to
\* deactivate the plugin
SpecSchedFair ==
    /\ SchedInit
    /\ [][LiveNext]_vars
    /\ \A t \in SchedThreads : WF_vars(ThreadStep(t))

(***************************************************************************)
(* The claims about the resolver and the fetcher, checked under SpecFetch. *)
(***************************************************************************)
\* a call of read_feed has returned
ReadDone == fpc = "idle" /\ fcalls > 0

Prefixes(s) == {SubSeq(s, 1, k) : k \in 0..Len(s)}

Suffixes(s) == {SubSeq(s, k, Len(s)) : k \in 1..(Len(s) + 1)}

\* the header without its leading wildcard stars
RuleText(h) ==
    CHOOSE s \in Suffixes(h) :
        /\ \A j \in 1..(Len(h) - Len(s)) : h[j] = "*"
        /\ s = <<>> \/ s[1] # "*"

\* the URL's path without its leading slashes
PathText(url) ==
    CHOOSE s \in Suffixes(UrlSplit(url).path) :
        /\ \A j \in 1..(Len(UrlSplit(url).path) - Len(s)) : UrlSplit(url).path[j] = "/"
        /\ s = <<>> \/ s[1] # "/"

\* the rule "domain" or "domain/path" matches the URL: the URL's domain ends
\* with the rule's domain and its path starts with the rule's path
RuleMatches(h, url) ==
    \E d \in Prefixes(RuleText(h)) :
        /\ "/" \notin Range(d)
        /\ \E x \in Prefixes(UrlSplit(url).netloc) : UrlSplit(url).netloc = x \o d
        /\ \/ d = RuleText(h)
           \/ \E rp \in Suffixes(RuleText(h)) :
                 /\ RuleText(h) = d \o <<"/">> \o rp
                 /\ \E y \in Suffixes(PathText(url)) : PathText(url) = rp \o y

MatchingRules == {i \in 1..Len(ini) : RuleMatches(ini[i].header, furl)}

LastOf(S) == CHOOSE i \in S : \A j \in S : j <= i

\* the config names an auth_type other than django_csrf
UnknownAuthType(config) ==
    HasKey(config, "auth_type") /\ Get(config, "auth_type") # "django_csrf"

\* attempt i of the last call fails: an exception (the configuration error
\* included), a bad status or a feed without a title
AttemptFails(i) ==
    fouts[i] \in {"exc", "status", "notitle"} \/ UnknownAuthType(fconfig)

\* C7: read_feed returns the parsed feed when one of its 3 attempts succeeds
\* (also after two failures) and None when all 3 fail; in neither case does
\* an exception leave read_feed.
C7_FetchRetries ==
    ReadDone =>
        /\ (\E i \in 1..Tries : ~AttemptFails(i)) => fres.feed = "feed"
        /\ (\A i \in 1..Tries : AttemptFails(i)) => fres.feed = None
        /\ ~fres.raised

\* C7 witness: the first two attempts failed, the third gave the feed
C7_Witness ==
    /\ ReadDone
    /\ AttemptFails(1) /\ AttemptFails(2) /\ ~AttemptFails(3)
    /\ fres.feed = "feed"
    /\ Len(fres.trace) = Tries

\* C8 as claimed: with an unrecognized auth_type the fetch makes exactly one
\* attempt, which fails with the configuration error, and is not retried.
C8_NoRetryOnConfigError ==
    (ReadDone /\ UnknownAuthType(fconfig)) =>
        /\ Len(fres.trace) = 1
        /\ fres.trace[1].outcome = "config"
        /\ fres.feed = None

\* C9: the resolver returns the section of the last rule, in the order the
\* rules were declared, whose header matches the URL.
C9_LastMatchWins ==
    (fpc = "resolved" /\ MatchingRules # {}) =>
        fconfig = ini[LastOf(MatchingRules)].section

\* C9 witness: rules "x.c" -> A then "x.c/b" -> B, URL h://s.x.c/b/p: both
\* match and B is returned
C9_Witness ==
    /\ fpc = "resolved"
    /\ ini = <<[header |-> HdrXC, section |-> CredA],
               [header |-> HdrXCB, section |-> CredB]>>
    /\ furl = UrlSub
    /\ MatchingRules = {1, 2}
    /\ fconfig = CredB

\* C10 as claimed: when no rule matches the URL the resolver returns the
\* empty config and the fetch runs unauthenticated: every attempt is a plain
\* GET, without a login step and without credentials on the request.
C10_NoMatchUnauthenticated ==
    /\ (fpc = "resolved" /\ MatchingRules = {}) => fconfig = {}
    /\ (ReadDone /\ MatchingRules = {}) =>
          /\ fres.trace # <<>>
          /\ \A i \in 1..Len(fres.trace) :
                fres.trace[i].step = "get" /\ fres.trace[i].creds = None

(***************************************************************************)
(* The claims about the poll cycle, checked under Spec.                    *)
(***************************************************************************)
\* thread t takes the step that reports the room at the head of rooms[t]
RoomStep(t) == pc[t] = "room" /\ (pc'[t] # "room" \/ rooms'[t] # rooms[t])

\* thread t takes the step that advances a watermark
AdvanceStep(t) == pc[t] = "advance" /\ pc'[t] # "advance"

\* thread t takes the step that reads the feed at the head of todo[t]
FetchStep(t) == pc[t] = "fetch" /\ (pc'[t] # "fetch" \/ todo'[t] # todo[t])

\* the feed and the room thread t is reporting, and the room's watermark as
\* the cycle holds it
CurFeed(t) == Head(todo[t])
CurRoom(t) == Head(rooms[t])
CycleWatermark(t) == snap[t][CurFeed(t)].roomfeeds[CurRoom(t)]

\* what a step appended to the messages of feed f for room r
NewlySent(f, r) == SubSeq(sent'[f][r], Len(sent[f][r]) + 1, Len(sent'[f][r]))

Ascending(s) ==
    \A i, j \in 1..Len(s) : i < j => Published(s[i]) <= Published(s[j])

NoRepeat(s) == \A i, j \in 1..Len(s) : i < j => s[i] # s[j]

\* C1 as claimed: over the whole run, the entries delivered for a feed to a
\* room are in non-decreasing published order and none is delivered twice.
C1_DeliveredOnceInOrder ==
    \A f \in DOMAIN sent : \A r \in DOMAIN sent[f] :
        Ascending(sent[f][r]) /\ NoRepeat(sent[f][r])

\* C2: when a cycle has fetched a non-empty feed, the room it reports gets
\* exactly the fetched entries published strictly after the watermark the
\* cycle holds for that room, one message each, in ascending published
\* order; the messages of every other room and feed are untouched.
C2_PerRoomSelection ==
    [][\A t \in Threads : RoomStep(t) =>
          LET f == CurFeed(t)
              r == CurRoom(t)
              new == NewlySent(f, r)
          IN  /\ sent'[f][r] = sent[f][r] \o new
              /\ Range(new) = {e \in Range(entries[t]) : Published(e) > CycleWatermark(t)}
              /\ Len(new) = Cardinality(Range(new))
              /\ Ascending(new)
              /\ \A g \in DOMAIN sent : \A q \in DOMAIN sent[g] :
                    <<g, q>> # <<f, r>> => sent'[g][q] = sent[g][q]]_vars

\* C2 witness: feed f1 returned entries 1 and 3; room r1 (watermark 0) got
\* both in order and room r2 (watermark 1, the instant of entry 1) got 3 only
C2_Witness ==
    /\ feeds0 = RegBoth
    /\ sent["f1"]["r1"] = <<1, 3>>
    /\ sent["f1"]["r2"] = <<3>>

\* C3: the step that follows a non-empty delivery sets the room's watermark
\* to the published instant of the last entry the cycle delivered to it.
C3_WatermarkIsLastDelivered ==
    [][\A t \in Threads :
          /\ RoomStep(t) => recent'[t] = NewlySent(CurFeed(t), CurRoom(t))
          /\ AdvanceStep(t) =>
                /\ recent[t] # <<>>
                /\ feeds'[CurFeed(t)].roomfeeds[CurRoom(t)] =
                      Published(recent[t][Len(recent[t])])]_vars

\* C3 witness: room r1 of f1 was sent entry 1 and then entry 3, and its
\* watermark has moved from 0 to the instant of entry 3
C3_Witness ==
    /\ feeds0 = RegBoth
    /\ sent["f1"]["r1"] = <<1, 3>>
    /\ feeds["f1"].roomfeeds["r1"] = Published(3)
    /\ \A t \in Threads : pc[t] # "advance"

\* C4: a watermark changes only in the step of a cycle that has just sent
\* that very room a non-empty selection; a read that fails or returns no
\* entries, and a room for which nothing is selected, change no watermark.
C4_NoSelectionNoAdvance ==
    [][/\ DOMAIN feeds' = DOMAIN feeds
       /\ \A f \in DOMAIN feeds :
             /\ DOMAIN feeds'[f].roomfeeds = DOMAIN feeds[f].roomfeeds
             /\ \A r \in DOMAIN feeds[f].roomfeeds :
                   feeds'[f].roomfeeds[r] # feeds[f].roomfeeds[r] =>
                      \E t \in Threads :
                         /\ AdvanceStep(t)
                         /\ CurFeed(t) = f /\ CurRoom(t) = r
                         /\ recent[t] # <<>>
       /\ \A t \in Threads : (FetchStep(t) \/ RoomStep(t)) => feeds' = feeds]_vars

\* C4 witness: a cycle is past room r1 of f1, for which it fetched entries
\* and selected none, while another room's watermark has advanced
C4_Witness ==
    \E t \in Threads :
        /\ pc[t] = "room"
        /\ CurFeed(t) = "f1" /\ CurRoom(t) = "r2"
        /\ entries[t] # <<>>
        /\ pick_recent_entries_from(entries[t], snap[t]["f1"].roomfeeds["r1"]) = <<>>
        /\ feeds["f1"].roomfeeds["r1"] = snap[t]["f1"].roomfeeds["r1"]
        /\ feeds # feeds0

\* C5 as claimed: once a cycle has reported a room, every entry of its
\* fetch published after the room's initial watermark has been delivered to
\* the room, in this cycle or an earlier one.
C5_NoEntryDropped ==
    [][\A t \in Threads : RoomStep(t) =>
          \A e \in Range(entries[t]) :
             Published(e) > feeds0[CurFeed(t)].roomfeeds[CurRoom(t)] =>
                e \in Range(sent'[CurFeed(t)][CurRoom(t)])]_vars

\* C5 amended: an entry of a cycle's fetch published after the watermark
\* the cycle holds for the room is delivered in that cycle; an entry
\* published at or before that watermark is not delivered by the cycle.
C5_DeliveredIffNewer ==
    [][\A t \in Threads : RoomStep(t) =>
          \A e \in Range(entries[t]) :
             IF Published(e) > CycleWatermark(t)
             THEN e \in Range(NewlySent(CurFeed(t), CurRoom(t)))
             ELSE e \notin Range(NewlySent(CurFeed(t), CurRoom(t)))]_vars

\* C5 witness: entry 1 is in the fetch of a cycle that is done with room r1
\* of f2, whose initial watermark 0 is older than the entry, and the room
\* was never sent it: an earlier cycle had moved the watermark past it
C5_Witness ==
    \E t \in Threads :
        /\ feeds0 = RegOne
        /\ pc[t] = "end"
        /\ 1 \in Range(entries[t])
        /\ 1 \notin Range(sent["f2"]["r1"])
        /\ sent["f2"]["r1"] # <<>>

\* C6: a cycle reads every feed of the dict it iterates: a feed whose read
\* gave None or no entries does not end the cycle, the feeds after it are
\* still read.
C6_FailedFeedDoesNotAbort ==
    \A t \in Threads :
        /\ pc[t] \in {"fetch", "room", "advance"} =>
              DOMAIN snap[t] = fetched[t] \cup Range(todo[t])
        /\ pc[t] \in {"end", "done"} => fetched[t] = DOMAIN snap[t]

\* C6 witness: the read of f1 failed (its config names an unknown
\* auth_type), f2 was read in the same cycle and its room got an entry
C6_Witness ==
    /\ feeds0 = RegBad
    /\ pc[0] = "done"
    /\ pc[1] = "idle"
    /\ fetched[0] = {"f1", "f2"}
    /\ sent["f1"]["r2"] = <<>>
    /\ sent["f2"]["r1"] # <<>>

(***************************************************************************)
(* The claims about the commands watch and ignore, checked under SpecReg.  *)
(***************************************************************************)
\* the registry holds a subscription of the room to the feed
Subscribed(reg, title, room) ==
    title \in DOMAIN reg /\ room \in DOMAIN reg[title].roomfeeds

\* command thread c takes a step of a command of the kind
CmdStep(c, kind) == cmd'[c] # cmd[c] /\ cmd'[c].kind = kind

\* command thread c starts a command of the kind
CmdStart(c, kind) == cmd'[c].n # cmd[c].n /\ cmd'[c].kind = kind

\* command thread c has ended a command of the kind
CmdDone(c, kind) == cmd[c].kind = kind /\ cmd[c].pc = "idle"

\* the number of subscriptions of a registry
NumSubscriptions(reg) ==
    Cardinality({<<f, r>> \in {"f1", "f2"} \X {"r1", "r2"} : Subscribed(reg, f, r)})

\* C11: a watch whose fetch finds a feed the room is already subscribed to
\* answers with the duplicate notice and no step of it changes the
\* registry: the number of subscriptions and the existing watermark stay,
\* also a watermark that a poll cycle has advanced since the first watch.
C11_WatchIdempotent ==
    [][\A c \in CmdThreads :
          /\ CmdStart(c, "watch") => feeds' = feeds
          /\ (cmd[c].pc = "check" /\ CmdStep(c, "watch")
                /\ Subscribed(feeds, cmd[c].title, cmd[c].room)) =>
                /\ cmd'[c].pc = "idle"
                /\ cmd'[c].resp = "already"
                /\ feeds' = feeds
                /\ NumSubscriptions(feeds') = NumSubscriptions(feeds)]_vars

\* C11 witness: the first watch of f1 by r1 answered "watching", a cycle
\* advanced the watermark, the second watch answered "already" and the
\* watermark is the advanced one
C11_Witness ==
    \E c, d \in CmdThreads :
        /\ CmdDone(c, "watch") /\ cmd[c].resp = "watching" /\ cmd[c].n = 1
        /\ CmdDone(d, "watch") /\ cmd[d].resp = "already" /\ cmd[d].n = 2
        /\ cmd[c].title = "f1" /\ cmd[d].title = "f1"
        /\ cmd[c].room = "r1" /\ cmd[d].room = "r1"
        /\ cmd[c].url = cmd[d].url
        /\ feeds["f1"].roomfeeds["r1"] > StartDate
        /\ NumSubscriptions(feeds) = 1

\* C12 as claimed: when two watch commands for the same feed from the same
\* room have both reached the registration, one has answered "watching",
\* the other the duplicate notice, and none has ended with an error.
C12_ConcurrentWatchOneWins ==
    \A c, d \in CmdThreads :
        (/\ c # d
         /\ CmdDone(c, "watch") /\ CmdDone(d, "watch")
         /\ cmd[c].title # None /\ cmd[c].title = cmd[d].title
         /\ cmd[c].room = cmd[d].room
         /\ cmd[c].resp # "IndexError" /\ cmd[d].resp # "IndexError"
         /\ ~Subscribed(feeds0, cmd[c].title, cmd[c].room)) =>
            /\ {cmd[c].resp, cmd[d].resp} = {"watching", "already"}
            /\ Subscribed(feeds, cmd[c].title, cmd[c].room)

\* C13 as claimed: once an ignore command has completed, no feed of the
\* stored registry has an empty set of subscriptions.
C13_CascadingRemoval ==
    (/\ \E c \in CmdThreads : CmdDone(c, "ignore") /\ cmd[c].resp = "ignoring"
     /\ \A c \in CmdThreads : cmd[c].pc = "idle") =>
        \A f \in DOMAIN feeds : has_rooms(feeds[f])

\* C14: an ignore for a title that is not registered, or that the room is
\* not subscribed to, answers "what feed are you talking bout?" at once and
\* leaves the registry as it was.
C14_IgnoreUnknown ==
    [][\A c \in CmdThreads :
          (CmdStart(c, "ignore")
             /\ ~Subscribed(feeds, cmd'[c].title, cmd'[c].room)) =>
                /\ cmd'[c].pc = "idle"
                /\ cmd'[c].resp = "unknown"
                /\ feeds' = feeds]_vars

\* C14 witness: room r2 ignored f2, which only r1 watches, and an ignore
\* named f1, which is not registered; both got the answer and the registry
\* is the initial one
C14_Witness ==
    \E c, d \in CmdThreads :
        /\ c # d
        /\ feeds0 = RegOne /\ feeds = RegOne
        /\ CmdDone(c, "ignore") /\ cmd[c].title = "f2" /\ cmd[c].room = "r2"
        /\ CmdDone(d, "ignore") /\ cmd[d].title = "f1"
        /\ cmd[c].resp = "unknown" /\ cmd[d].resp = "unknown"

\* C15 as claimed: the URL stored for a title never changes, and a step of
\* a watch command leaves the subscriptions a feed already has, and their
\* watermarks, in place.
C15_UrlImmutable ==
    [][\A f \in DOMAIN feeds \cap DOMAIN feeds' :
          /\ feeds'[f].url = feeds[f].url
          /\ (\E c \in CmdThreads : CmdStep(c, "watch")) =>
                \A r \in DOMAIN feeds[f].roomfeeds :
                   /\ r \in DOMAIN feeds'[f].roomfeeds
                   /\ feeds'[f].roomfeeds[r] = feeds[f].roomfeeds[r]]_vars

\* C20 as claimed: the cycle that activate starts reads only feeds that
\* were registered when it started; no command runs before it starts, so
\* these are the feeds of the initial registry.
C20_FeedSetAtCycleStart ==
    /\ fetched[0] \subseteq DOMAIN feeds0
    /\ pc[1] = "idle" =>
          \A f \in DOMAIN sent : \A r \in DOMAIN sent[f] :
             sent[f][r] # <<>> => f \in DOMAIN feeds0

\* C20 amended: a cycle works on the feed set it read from the registry for
\* its loop (line 366, after it has armed the next timer): it reads these
\* feeds and no other, a feed registered after that read is not read and
\* gets no delivery in the cycle, and the next cycle's read holds it.
C20_FeedSetAtSnapshot ==
    [][\A t \in CycleThreads :
          /\ (pc[t] = "snapshot" /\ pc'[t] # "snapshot") =>
                /\ snap'[t] = feeds
                /\ fetched'[t] = {}
                /\ \A f \in DOMAIN feeds : f \in Range(todo'[t])
          /\ pc[t] \in {"fetch", "room", "advance", "end"} =>
                /\ snap'[t] = snap[t]
                /\ fetched'[t] \subseteq DOMAIN snap[t]
                /\ Range(todo'[t]) \subseteq Range(todo[t])
                /\ \A f \in DOMAIN sent : \A r \in DOMAIN sent[f] :
                      (pc'[t] # pc[t] /\ sent'[f][r] # sent[f][r]) =>
                         f \in DOMAIN snap[t]
          /\ FetchStep(t) =>
                fetched'[t] = fetched[t] \cup {CurFeed(t)}]_vars

\* C20 witness: f1 was registered by a watch while the cycle of activate
\* was in flight, past its read of the registry; the cycle is at its end
\* and has read f2 only
C20_Witness ==
    /\ feeds0 = RegOne
    /\ "f1" \in DOMAIN feeds
    /\ pc[0] = "end" /\ fetched[0] = {"f2"}
    /\ "f1" \notin DOMAIN snap[0]

(***************************************************************************)
(* The claims about the scheduler, checked under SpecSched.                *)
(***************************************************************************)
\* the timers that are pending
Armed(tm) == {n \in DOMAIN tm : tm[n] = "armed"}

\* thread t leaves the place p of check_feeds
Leaves(t, p) == pc[t] = p /\ pc'[t] # p

\* C16 as claimed: the adaptive rule of a starting cycle sets the interval
\* to the recorded duration exactly when that duration is >= the interval,
\* and its assignment never lowers a positive interval.
C16_AdaptiveInterval ==
    [][\A t \in SchedThreads :
          /\ Leaves(t, "begin") =>
                /\ interval' = interval
                /\ pc'[t] = "adapt_set" <=> delta >= interval
          /\ Leaves(t, "adapt_set") =>
                /\ interval' = delta
                /\ interval' >= interval]_vars

\* C17 as claimed: the interval command with 0, given while a timer is
\* pending, leaves no timer pending when it ends; the interval command with
\* a positive value, given while no timer is pending, leaves exactly one
\* timer pending, for that value.
C17_IntervalZeroThenPositive ==
    [][\A c \in SchedCmdThreads :
          /\ (cmd[c].pc = "iv_stop0" /\ cmd'[c].pc = "idle"
                /\ Armed(timer) # {}) => Armed(timer') = {}
          /\ (cmd[c].pc = "iv_arm" /\ cmd'[c].pc = "idle"
                /\ Armed(timer) = {}) =>
                /\ Cardinality(Armed(timer')) = 1
                /\ interval' = cmd[c].value]_vars

\* C18 as claimed: after deactivate no timer is pending, whatever the
\* cycles in flight do (no command has been given).
C18_IdleAfterDeactivate ==
    (stopped /\ ncmd = 0) => Armed(timer) = {}

\* C19 as claimed: at most one timer is pending at any time.
C19_AtMostOneTimer == Cardinality(Armed(timer)) <= 1


(***************************************************************************)
(* Claims about the life of a poll cycle (specification Spec)              *)
(***************************************************************************)
\* the positions of a cycle between its start and its end
InFlight == {"snapshot", "fetch", "room", "advance", "end"}

\* the threads that are inside a cycle
Running == {t \in Threads : pc[t] \in InFlight}

\* C21 as claimed: activation runs its cycle to completion and only then
\* arms the timer, so no timer is armed while the cycle of activate runs.
C21_CycleBeforeTimer == pc[0] \in InFlight => Armed(timer) = {}

\* C22 as claimed: poll cycles never overlap, at most one thread is inside
\* a cycle at any time.
C22_NoOverlap == Cardinality(Running) <= 1

\* C23 as claimed: no step moves the watermark of a subscription backwards.
C23_WatermarkMonotonic ==
    [][\A f \in DOMAIN feeds \cap DOMAIN feeds' :
         \A r \in DOMAIN feeds[f].roomfeeds \cap DOMAIN feeds'[f].roomfeeds :
            feeds'[f].roomfeeds[r] >= feeds[f].roomfeeds[r]]_vars

\* C24: the store changes only in the advance step of a cycle, and at that
\* step every entry the cycle selected for the room is in the sink already;
\* the step that selects and sends leaves the watermark alone.
C24_SendBeforeAdvance ==
    [][feeds' # feeds =>
         \E t \in Threads :
            /\ AdvanceStep(t)
            /\ recent[t] # <<>>
            /\ \A i \in 1..Len(recent[t]) :
                  recent[t][i] \in Range(sent[CurFeed(t)][CurRoom(t)])]_vars

\* C24's case: the selected entries are sent, the watermark is still the old one
C24_Witness ==
    \E t \in Threads :
       /\ pc[t] = "advance"
       /\ Len(recent[t]) = 2
       /\ \A i \in 1..Len(recent[t]) :
             recent[t][i] \in Range(sent[CurFeed(t)][CurRoom(t)])
       /\ feeds[CurFeed(t)].roomfeeds[CurRoom(t)] = CycleWatermark(t)
       /\ CycleWatermark(t) < published_date(recent[t][1])

\* C27 as claimed: a cycle comes to its end only through the step that
\* records its duration (lines 369-371).
C27_CycleRecordsDuration ==
    [][\A t \in Threads : (pc[t] \in InFlight /\ pc'[t] = "done") => pc[t] = "end"]_vars


(***************************************************************************)
(* Claims about the termination of a fetch (specification SpecFetch)       *)
(***************************************************************************)
\* C26: a fetch makes between 1 and 3 attempts, the counter of attempts
\* left goes down by one from 3 with every attempt, successful or not, and
\* only the last attempt made can be a successful one.
C26_FetchTerminates ==
    ReadDone =>
        /\ Len(fres.trace) \in 1..Tries
        /\ \A i \in 1..Len(fres.trace) : fres.trace[i].tries_left = Tries + 1 - i
        /\ \A i \in 1..(Len(fres.trace) - 1) : fres.trace[i].outcome # "ok"

\* C26's case: the second attempt succeeds and the third, which would
\* succeed as well, is not made
C26_Witness ==
    /\ ReadDone
    /\ Len(fres.trace) = 2
    /\ fres.trace[1].outcome # "ok"
    /\ fres.trace[2].outcome = "ok"
    /\ fouts[3] = "ok"


(***************************************************************************)
(* Claims about a disabled scheduler (specification SpecSched)             *)
(***************************************************************************)
\* C28 as claimed: a stored interval of 0 stays 0 until an interval command
\* with a positive value writes it; no step of a cycle raises it.
C28_ZeroStaysZero ==
    [][(interval = 0 /\ interval' # 0) =>
          \E c \in SchedCmdThreads : CmdStart(c, "interval") /\ cmd'[c].value > 0]_vars


(***************************************************************************)
(* Claims about commands and cycles on one registry (specification SpecReg)*)
(***************************************************************************)
\* C29: a step of an ignore command leaves every subscription other than
\* the one of the command's room to the command's feed as it was, watermark
\* included, and adds none.
C29_IgnoreFrame ==
    [][\A c \in CmdThreads :
          CmdStep(c, "ignore") =>
             /\ \A f \in DOMAIN feeds : \A r \in DOMAIN feeds[f].roomfeeds :
                   <<f, r>> # <<cmd'[c].title, cmd'[c].room>> =>
                      /\ Subscribed(feeds', f, r)
                      /\ feeds'[f].roomfeeds[r] = feeds[f].roomfeeds[r]
             /\ \A f \in DOMAIN feeds' : \A r \in DOMAIN feeds'[f].roomfeeds :
                   Subscribed(feeds, f, r)]_vars

\* C29's case: r1 has ignored f2, which r2 watches as well
C29_Witness ==
    \E c \in CmdThreads :
       /\ CmdDone(c, "ignore")
       /\ cmd[c].resp = "ignoring"
       /\ cmd[c].title = "f2" /\ cmd[c].room = "r1"
       /\ ~Subscribed(feeds, "f2", "r1")
       /\ Subscribed(feeds, "f2", "r2")

\* the subscriptions of a registry
Subscriptions(reg) == {<<f, r>> \in {"f1", "f2"} \X {"r1", "r2"} : Subscribed(reg, f, r)}

Fired == {n \in DOMAIN timer : timer[n] = "fired"}

\* every timer the model has is used up
NoTimerLeft == \A n \in DOMAIN timer : timer[n] # "new"

\* C25: when k timers have fired, then eventually one more fires (another
\* cycle starts), unless the interval is 0, the plugin is deactivated or the
\* model has no timer left; also when the cycle ended with an exception.
C25_NextCycleStarts ==
    \A k \in 1..(SchedTimers - 1) :
       (Cardinality(Fired) = k) ~>
          (Cardinality(Fired) > k \/ interval = 0 \/ stopped \/ NoTimerLeft)

\* C25's case: the cycle of the first timer ended with an exception and the
\* timer it had armed has fired
C25_Witness ==
    /\ pc[1] = "failed"
    /\ timer[1] = "fired" /\ timer[2] = "fired"
    /\ pc[2] = "begin"
    /\ interval > 0
    /\ ~stopped


(***************************************************************************)
(* Claims about a watch that finds no feed (specification SpecReg)         *)
(***************************************************************************)
\* C31: the step of a watch command whose read_feed returned None (the
\* command has no title) answers "couldn't find a feed", ends the command
\* and leaves the registry as it was.
C31_WatchWithoutFeed ==
    [][\A c \in CmdThreads :
          (cmd'[c] # cmd[c] /\ cmd'[c].kind = "watch" /\ cmd'[c].title = None) =>
             /\ cmd'[c].resp = "nofeed"
             /\ cmd'[c].pc = "idle"
             /\ feeds' = feeds]_vars

\* C31's case: a watch on an empty registry has answered "couldn't find a
\* feed" and the registry is still empty
C31_Witness ==
    /\ \E c \in CmdThreads :
          /\ CmdDone(c, "watch")
          /\ cmd[c].resp = "nofeed"
          /\ cmd[c].title = None
    /\ feeds0 = RegEmpty
    /\ feeds = RegEmpty

=============================================================================
